---------------------------- MODULE Spec2Model ----------------------------
(***************************************************************************)
(* A model of the SMART-TASK-PLANNER web service (src/app.py).             *)
(*                                                                         *)
(* Text is modelled as a sequence of one-character strings, so that the    *)
(* regular expressions, str methods and the JSON codec of the source are   *)
(* operators over characters and can be wrong.  A JSON value (a Python     *)
(* object after json.loads) is a record                                    *)
(*     [kind, txt, items]                                                  *)
(* where kind is "dict", "list", "str", "num", "null", "true" or "false",  *)
(* txt is the characters of a string or the digits of an integer, and      *)
(* items is the sequence of [k, v] members of a dict (k the key) or of a   *)
(* list (k empty).                                                         *)
(***************************************************************************)
EXTENDS Naturals, Sequences, FiniteSets, TLC

-----------------------------------------------------------------------------
(* Characters and str methods                                              *)

NL == "\n"
QT == "\""
\* The backtick of a Markdown code fence (the character itself cannot be
\* written in a TLA+ string).
BT == "BACKTICK"
LB == "{"
RB == "}"

\* The characters str.strip(), the regex class \s and the JSON grammar treat
\* as whitespace (the texts of the model hold no other whitespace).
Whitespace == {" ", "\n", "\t", "\r"}

Digits == {"0", "1", "2", "3", "4", "5", "6", "7", "8", "9"}

DigitSeq == <<"0", "1", "2", "3", "4", "5", "6", "7", "8", "9">>

UpperLetters == <<"A", "B", "C", "D", "E", "F", "G", "H", "I", "J", "K", "L", "M",
                  "N", "O", "P", "Q", "R", "S", "T", "U", "V", "W", "X", "Y", "Z">>

LowerLetters == <<"a", "b", "c", "d", "e", "f", "g", "h", "i", "j", "k", "l", "m",
                  "n", "o", "p", "q", "r", "s", "t", "u", "v", "w", "x", "y", "z">>

\* str.lower() on one character.
LowerChar(c) ==
    IF \E i \in 1..26 : UpperLetters[i] = c
    THEN LowerLetters[CHOOSE i \in 1..26 : UpperLetters[i] = c]
    ELSE c

\* str.lower()
Lower(s) == [i \in 1..Len(s) |-> LowerChar(s[i])]

\* s[i:] and s[i:j] with 1-based inclusive positions.
From(s, i) == SubSeq(s, i, Len(s))

\* Whether p occurs in s starting at position i.
OccursAt(s, p, i) ==
    /\ i >= 1
    /\ i + Len(p) - 1 <= Len(s)
    /\ \A k \in 1..Len(p) : s[i + k - 1] = p[k]

\* str.startswith
StartsWith(s, p) == OccursAt(s, p, 1)

\* The operator "in" on two strings.
Contains(s, p) == \E i \in 1..(Len(s) + 1) : OccursAt(s, p, i)

\* The number of whitespace characters from position i on (the greedy \s*).
RECURSIVE WsRun(_, _)
WsRun(s, i) ==
    IF i <= Len(s) /\ s[i] \in Whitespace THEN 1 + WsRun(s, i + 1) ELSE 0

\* The number of digits from position i on (the greedy \d+ or \d*).
RECURSIVE DigitRun(_, _)
DigitRun(s, i) ==
    IF i <= Len(s) /\ s[i] \in Digits THEN 1 + DigitRun(s, i + 1) ELSE 0

\* str.lstrip() drops the leading whitespace.
LStrip(s) == From(s, 1 + WsRun(s, 1))

\* The number of whitespace characters ending at position i, backwards.
RECURSIVE WsRunBack(_, _)
WsRunBack(s, i) ==
    IF i >= 1 /\ s[i] \in Whitespace THEN 1 + WsRunBack(s, i - 1) ELSE 0

\* str.rstrip()
RStrip(s) == SubSeq(s, 1, Len(s) - WsRunBack(s, Len(s)))

\* str.strip()
Strip(s) == RStrip(LStrip(s))

-----------------------------------------------------------------------------
(* The JSON codec: json.loads and json.dumps                               *)

StrVal(t) == [kind |-> "str", txt |-> t, items |-> <<>>]

NumVal(t) == [kind |-> "num", txt |-> t, items |-> <<>>]

LitVal(name) == [kind |-> name, txt |-> <<>>, items |-> <<>>]

DictVal(members) == [kind |-> "dict", txt |-> <<>>, items |-> members]

ListVal(members) == [kind |-> "list", txt |-> <<>>, items |-> members]

NoneVal == LitVal("null")

\* A parse step's result: whether it succeeded, the value and the position
\* of the first character after it.
Parsed(v, p) == [ok |-> TRUE, val |-> v, pos |-> p]

ParseError == [ok |-> FALSE, val |-> NoneVal, pos |-> 0]

\* dict assignment d[k] = v on the members of a dict: a repeated key keeps
\* its place and takes the later value.
DictPut(members, k, v) ==
    IF \E i \in 1..Len(members) : members[i].k = k
    THEN [i \in 1..Len(members) |->
            IF members[i].k = k THEN [k |-> k, v |-> v] ELSE members[i]]
    ELSE Append(members, [k |-> k, v |-> v])

\* The position of the first quote at or after i, or 0.
RECURSIVE NextQuote(_, _)
NextQuote(s, i) ==
    IF i > Len(s) THEN 0
    ELSE IF s[i] = QT THEN i
    ELSE NextQuote(s, i + 1)

\* A JSON string starting at the quote at position i.  The decoder is
\* strict: a control character inside a string is an error.  (The texts of
\* the model hold no backslash, so no escape sequence is decoded.)
ParseString(s, i) ==
    LET j == NextQuote(s, i + 1) IN
    IF j = 0 THEN ParseError
    ELSE IF \E k \in (i + 1)..(j - 1) : s[k] \in {"\n", "\t", "\r"} THEN ParseError
    ELSE Parsed(StrVal(SubSeq(s, i + 1, j - 1)), j + 1)

\* A JSON integer starting at the digit at position i: a leading 0 is a
\* number of its own.  (The texts of the model hold no sign, fraction or
\* exponent.)
ParseNumber(s, i) ==
    LET n == IF s[i] = "0" THEN 1 ELSE DigitRun(s, i) IN
    Parsed(NumVal(SubSeq(s, i, i + n - 1)), i + n)

RECURSIVE ParseValue(_, _)
RECURSIVE ParseMembers(_, _, _)
RECURSIVE ParseElements(_, _, _)

\* JSONObject's loop from a key at position i, with the members read so far.
ParseMembers(s, i, acc) ==
    IF i > Len(s) \/ s[i] # QT THEN ParseError
    ELSE
      LET key == ParseString(s, i) IN
      IF ~key.ok THEN ParseError
      ELSE
        LET c == key.pos + WsRun(s, key.pos) IN
        IF c > Len(s) \/ s[c] # ":" THEN ParseError
        ELSE
          LET v == ParseValue(s, c + 1 + WsRun(s, c + 1)) IN
          IF ~v.ok THEN ParseError
          ELSE
            LET e == v.pos + WsRun(s, v.pos)
                members == DictPut(acc, key.val.txt, v.val)
            IN
            IF e > Len(s) THEN ParseError
            ELSE IF s[e] = RB THEN Parsed(DictVal(members), e + 1)
            ELSE IF s[e] = "," THEN ParseMembers(s, e + 1 + WsRun(s, e + 1), members)
            ELSE ParseError

\* JSONArray's loop from a value at position i, with the elements read so far.
ParseElements(s, i, acc) ==
    LET v == ParseValue(s, i) IN
    IF ~v.ok THEN ParseError
    ELSE
      LET e == v.pos + WsRun(s, v.pos)
          elements == Append(acc, [k |-> <<>>, v |-> v.val])
      IN
      IF e > Len(s) THEN ParseError
      ELSE IF s[e] = "]" THEN Parsed(ListVal(elements), e + 1)
      ELSE IF s[e] = "," THEN ParseElements(s, e + 1 + WsRun(s, e + 1), elements)
      ELSE ParseError

\* scan_once: the JSON value starting at position i.
ParseValue(s, i) ==
    IF i > Len(s) THEN ParseError
    ELSE IF s[i] = QT THEN ParseString(s, i)
    ELSE IF s[i] = LB THEN
      LET j == i + 1 + WsRun(s, i + 1) IN
      IF j <= Len(s) /\ s[j] = RB THEN Parsed(DictVal(<<>>), j + 1)
      ELSE ParseMembers(s, j, <<>>)
    ELSE IF s[i] = "[" THEN
      LET j == i + 1 + WsRun(s, i + 1) IN
      IF j <= Len(s) /\ s[j] = "]" THEN Parsed(ListVal(<<>>), j + 1)
      ELSE ParseElements(s, j, <<>>)
    ELSE IF OccursAt(s, <<"n", "u", "l", "l">>, i) THEN Parsed(LitVal("null"), i + 4)
    ELSE IF OccursAt(s, <<"t", "r", "u", "e">>, i) THEN Parsed(LitVal("true"), i + 4)
    ELSE IF OccursAt(s, <<"f", "a", "l", "s", "e">>, i) THEN Parsed(LitVal("false"), i + 5)
    ELSE IF s[i] \in Digits THEN ParseNumber(s, i)
    ELSE ParseError

\* json.loads: one value between optional whitespace and nothing after it;
\* ok is FALSE where json.loads raises JSONDecodeError.
Loads(s) ==
    LET v == ParseValue(s, 1 + WsRun(s, 1)) IN
    IF v.ok /\ v.pos + WsRun(s, v.pos) = Len(s) + 1
    THEN [ok |-> TRUE, val |-> v.val]
    ELSE [ok |-> FALSE, val |-> NoneVal]

RECURSIVE Dumps(_)
RECURSIVE DumpsItems(_, _, _)

\* The members of a dict or list from the i-th on, joined by ", ".
DumpsItems(items, i, isDict) ==
    IF i > Len(items) THEN <<>>
    ELSE (IF i > 1 THEN <<",", " ">> ELSE <<>>)
         \o (IF isDict THEN <<QT>> \o items[i].k \o <<QT, ":", " ">> ELSE <<>>)
         \o Dumps(items[i].v)
         \o DumpsItems(items, i + 1, isDict)

\* json.dumps with its default separators.  (A string of the model holds no
\* character that json.dumps escapes.)
Dumps(v) ==
    CASE v.kind = "dict" -> <<LB>> \o DumpsItems(v.items, 1, TRUE) \o <<RB>>
      [] v.kind = "list" -> <<"[">> \o DumpsItems(v.items, 1, FALSE) \o <<"]">>
      [] v.kind = "str" -> <<QT>> \o v.txt \o <<QT>>
      [] v.kind = "num" -> v.txt
      [] v.kind = "null" -> <<"n", "u", "l", "l">>
      [] v.kind = "true" -> <<"t", "r", "u", "e">>
      [] v.kind = "false" -> <<"f", "a", "l", "s", "e">>

-----------------------------------------------------------------------------
(* generate_plan: cleaning the model's reply and parsing it                *)

W_json == <<"j", "s", "o", "n">>

W_error == <<"e", "r", "r", "o", "r">>

W_project_name == <<"p", "r", "o", "j", "e", "c", "t", "_", "n", "a", "m", "e">>

W_retry_after == <<"r", "e", "t", "r", "y", "_", "a", "f", "t", "e", "r">>

Fence == <<BT, BT, BT>>

\* A reply's text attribute: None, or a string.
NoText == [none |-> TRUE, txt |-> <<>>]

Text(t) == [none |-> FALSE, txt |-> t]

\* raw_text or ''
OrEmpty(raw_text) == IF raw_text.none THEN <<>> ELSE raw_text.txt

\* RemoveLeadingFence with the pattern ^```.*\n? in place of the tag and the
\* whitespace: the whole first line goes.
RemoveFenceLine(s) ==
    IF ~StartsWith(s, Fence) THEN s
    ELSE IF \E i \in 1..Len(s) : s[i] = NL
      THEN From(s, 1 + CHOOSE i \in 1..Len(s) :
                         s[i] = NL /\ \A k \in 1..(i - 1) : s[k] # NL)
    ELSE <<>>

\* re.sub(r"^```(?:json)?\s*", '', s, flags=re.IGNORECASE): an opening
\* fence, its optional tag in any case, and the whitespace after it.
RemoveLeadingFence(s) ==
    IF ~StartsWith(s, Fence) THEN s
    ELSE
      LET tag == IF OccursAt(Lower(s), W_json, 4) THEN 4 ELSE 0
          n == 3 + tag
      IN From(s, n + 1 + WsRun(s, n + 1))

\* Whether \s*```$ matches from position i: the whitespace run at i, the
\* fence, and then the end of the text or its last line break.
TrailingFenceAt(s, i) ==
    LET j == i + WsRun(s, i) IN
    /\ OccursAt(s, Fence, j)
    /\ \/ j + 3 = Len(s) + 1
       \/ j + 3 = Len(s) /\ s[Len(s)] = NL

\* re.sub(r"\s*```$", '', s): the leftmost match is removed.
RemoveTrailingFence(s) ==
    IF ~\E i \in 1..Len(s) : TrailingFenceAt(s, i) THEN s
    ELSE
      LET i == CHOOSE k \in 1..Len(s) :
                 /\ TrailingFenceAt(s, k)
                 /\ \A m \in 1..(k - 1) : ~TrailingFenceAt(s, m)
          j == i + WsRun(s, i)
      IN SubSeq(s, 1, i - 1) \o From(s, j + 3)

\* A leading 'json' token in any case is dropped, and the rest stripped.
StripJsonToken(s) ==
    IF StartsWith(Lower(s), W_json) THEN Strip(From(s, Len(W_json) + 1)) ELSE s

\* json_response_text as the brace search reads it.
CleanReply(raw_text) ==
    StripJsonToken(RemoveTrailingFence(RemoveLeadingFence(Strip(OrEmpty(raw_text)))))

\* Whether \{[\s\S]*\} matches from position i up to position j.
BraceMatch(s, i, j) == i < j /\ s[i] = LB /\ s[j] = RB

\* BraceSearch with the lazy pattern \{[\s\S]*?\}: from the leftmost start
\* the shortest match.
BraceSearchShortest(s) ==
    LET n == Len(s)
        starts == {i \in 1..n : \E j \in 1..n : BraceMatch(s, i, j)}
    IN
    IF starts = {} THEN [found |-> FALSE, first |-> 0, last |-> 0]
    ELSE
      LET i == CHOOSE k \in starts : \A m \in starts : k <= m
          j == CHOOSE k \in 1..n :
                 /\ BraceMatch(s, i, k)
                 /\ \A m \in 1..n : BraceMatch(s, i, m) => k <= m
      IN [found |-> TRUE, first |-> i, last |-> j]

\* re.search(r"\{[\s\S]*\}", s): the leftmost start that has a match, and
\* from it the longest match.
BraceSearch(s) ==
    LET n == Len(s)
        starts == {i \in 1..n : \E j \in 1..n : BraceMatch(s, i, j)}
    IN
    IF starts = {} THEN [found |-> FALSE, first |-> 0, last |-> 0]
    ELSE
      LET i == CHOOSE k \in starts : \A m \in starts : k <= m
          j == CHOOSE k \in 1..n :
                 /\ BraceMatch(s, i, k)
                 /\ \A m \in 1..n : BraceMatch(s, i, m) => m <= k
      IN [found |-> TRUE, first |-> i, last |-> j]

\* json_candidate: the stripped match, or the whole cleaned text.
JsonCandidate(s) ==
    LET m == BraceSearch(s) IN
    IF m.found THEN Strip(SubSeq(s, m.first, m.last)) ELSE s

InvalidJsonMessage ==
    <<"A", "I", " ", "r", "e", "t", "u", "r", "n", "e", "d", " ", "i", "n",
      "v", "a", "l", "i", "d", " ", "J", "S", "O", "N", ".", " ", "S", "e",
      "e", " ", "s", "e", "r", "v", "e", "r", " ", "l", "o", "g", "s", " ",
      "o", "r", " ", "l", "a", "s", "t", "_", "r", "a", "w", "_", "m", "o",
      "d", "e", "l", "_", "r", "e", "s", "p", "o", "n", "s", "e", ".", "t",
      "x", "t", " ", "f", "o", "r", " ", "d", "e", "t", "a", "i", "l", "s",
      ".">>

\* {"error": msg}
ErrorDict(msg) == DictVal(<<[k |-> W_error, v |-> StrVal(msg)]>>)

\* Normalize with the return of the except branch left out: a reply that
\* does not parse gives None.
NormalizeNoReturn(raw_text) ==
    LET cleaned == CleanReply(raw_text)
        candidate == JsonCandidate(cleaned)
        parsed == Loads(candidate)
    IN [cleaned |-> cleaned,
        candidate |-> candidate,
        ok |-> parsed.ok,
        plan |-> IF parsed.ok THEN parsed.val ELSE NoneVal]

\* The try block of generate_plan from the reply's text on: the cleaned
\* text, the candidate, and json.loads of it.
Normalize(raw_text) ==
    LET cleaned == CleanReply(raw_text)
        candidate == JsonCandidate(cleaned)
        parsed == Loads(candidate)
    IN [cleaned |-> cleaned,
        candidate |-> candidate,
        ok |-> parsed.ok,
        plan |-> IF parsed.ok THEN parsed.val ELSE ErrorDict(InvalidJsonMessage)]

-----------------------------------------------------------------------------
(* Python's operations on the plan that create_plan_endpoint uses          *)

\* key in plan: "raise" where Python raises TypeError (a number, None or a
\* bool is not iterable).
PyIn(key, p) ==
    CASE p.kind = "dict" ->
           IF \E i \in 1..Len(p.items) : p.items[i].k = key
           THEN "true" ELSE "false"
      [] p.kind = "list" ->
           IF \E i \in 1..Len(p.items) : p.items[i].v = StrVal(key)
           THEN "true" ELSE "false"
      [] p.kind = "str" -> IF Contains(p.txt, key) THEN "true" ELSE "false"
      [] OTHER -> "raise"

\* Only a dict has the method get; on a list or a str it is an
\* AttributeError.
HasGet(p) == p.kind = "dict"

\* p.get(key, default) of a dict.
PyGet(p, key, default) ==
    IF \E i \in 1..Len(p.items) : p.items[i].k = key
    THEN p.items[CHOOSE i \in 1..Len(p.items) : p.items[i].k = key].v
    ELSE default

RECURSIVE PyRepr(_)
RECURSIVE PyReprItems(_, _, _)

\* The members of a dict or list from the i-th on, as repr() shows them.
PyReprItems(items, i, isDict) ==
    IF i > Len(items) THEN <<>>
    ELSE (IF i > 1 THEN <<",", " ">> ELSE <<>>)
         \o (IF isDict THEN <<"'">> \o items[i].k \o <<"'", ":", " ">> ELSE <<>>)
         \o PyRepr(items[i].v)
         \o PyReprItems(items, i + 1, isDict)

\* repr().  (A string of the model holds no quote and no backslash.)
PyRepr(v) ==
    CASE v.kind = "dict" -> <<LB>> \o PyReprItems(v.items, 1, TRUE) \o <<RB>>
      [] v.kind = "list" -> <<"[">> \o PyReprItems(v.items, 1, FALSE) \o <<"]">>
      [] v.kind = "str" -> <<"'">> \o v.txt \o <<"'">>
      [] v.kind = "num" -> v.txt
      [] v.kind = "null" -> <<"N", "o", "n", "e">>
      [] v.kind = "true" -> <<"T", "r", "u", "e">>
      [] v.kind = "false" -> <<"F", "a", "l", "s", "e">>

\* str()
PyStr(v) == IF v.kind = "str" THEN v.txt ELSE PyRepr(v)

\* bool(): None, False, 0, '', [] and {} are falsy.
Truthy(v) ==
    CASE v.kind \in {"dict", "list"} -> v.items # <<>>
      [] v.kind = "str" -> v.txt # <<>>
      [] v.kind = "num" -> v.txt # <<"0">>
      [] v.kind = "true" -> TRUE
      [] OTHER -> FALSE

\* The value of one decimal digit.
DigitValue(c) == (CHOOSE i \in 1..10 : DigitSeq[i] = c) - 1

\* int() of a string of digits.
RECURSIVE DigitsToNat(_)
DigitsToNat(d) ==
    IF d = <<>> THEN 0
    ELSE 10 * DigitsToNat(SubSeq(d, 1, Len(d) - 1)) + DigitValue(d[Len(d)])

\* str() of a natural number.
RECURSIVE NatToDigits(_)
NatToDigits(n) ==
    IF n < 10 THEN <<DigitSeq[n + 1]>>
    ELSE NatToDigits(n \div 10) \o <<DigitSeq[(n % 10) + 1]>>

-----------------------------------------------------------------------------
(* The rate-limit classification of create_plan_endpoint                   *)

W_quota == <<"q", "u", "o", "t", "a">>

W_429 == <<"4", "2", "9">>

W_please_retry_in == <<"p", "l", "e", "a", "s", "e", " ", "r", "e", "t", "r", "y", " ", "i", "n">>

W_retry_delay == <<"r", "e", "t", "r", "y", "_", "d", "e", "l", "a", "y">>

W_seconds == <<"s", "e", "c", "o", "n", "d", "s", ":">>

\* IsRateLimited without the lower().
IsRateLimitedCaseSensitive(msg) == Contains(msg, W_quota) \/ Contains(msg, W_429)

\* 'quota' in err_msg.lower() or '429' in err_msg
IsRateLimited(msg) == Contains(Lower(msg), W_quota) \/ Contains(msg, W_429)

NoMatch == [found |-> FALSE, group |-> <<>>]

\* r'Please retry in\s*(\d+(?:\.\d+)?)s' under re.IGNORECASE from position
\* i: the words, whitespace, the digits, an optional fraction, and s.  The
\* digit runs are greedy, and giving characters back never helps, since an s
\* is no digit.
RetryInAt(msg, i) ==
    LET low == Lower(msg)
        d == i + Len(W_please_retry_in) + WsRun(msg, i + Len(W_please_retry_in))
        n == DigitRun(msg, d)
        e == d + n
        f == IF e <= Len(msg) /\ msg[e] = "." THEN DigitRun(msg, e + 1) ELSE 0
    IN
    IF ~OccursAt(low, W_please_retry_in, i) \/ n = 0 THEN NoMatch
    ELSE IF f > 0 /\ OccursAt(low, <<"s">>, e + 1 + f)
      THEN [found |-> TRUE, group |-> SubSeq(msg, d, e + f)]
    ELSE IF OccursAt(low, <<"s">>, e)
      THEN [found |-> TRUE, group |-> SubSeq(msg, d, e - 1)]
    ELSE NoMatch

\* The number of characters other than } from position i on (the greedy
\* [^}]*).
RECURSIVE NotBraceRun(_, _)
NotBraceRun(s, i) ==
    IF i <= Len(s) /\ s[i] # RB THEN 1 + NotBraceRun(s, i + 1) ELSE 0

\* Whether seconds:\s*(\d+) matches from position p.
SecondsAt(msg, p) ==
    /\ OccursAt(msg, W_seconds, p)
    /\ DigitRun(msg, p + Len(W_seconds) + WsRun(msg, p + Len(W_seconds))) > 0

\* r'retry_delay\s*\{[^}]*seconds:\s*(\d+)' from position i.  [^}]* takes
\* all it can and gives back until seconds: follows, so the last seconds: of
\* the block is the one captured.
RetryDelayAt(msg, i) ==
    LET b == i + Len(W_retry_delay) + WsRun(msg, i + Len(W_retry_delay))
        stop == b + 1 + NotBraceRun(msg, b + 1)
        places == {p \in (b + 1)..stop : SecondsAt(msg, p)}
    IN
    IF ~OccursAt(msg, W_retry_delay, i) \/ ~OccursAt(msg, <<LB>>, b) \/ places = {}
    THEN NoMatch
    ELSE
      LET p == CHOOSE q \in places : \A r \in places : r <= q
          d == p + Len(W_seconds) + WsRun(msg, p + Len(W_seconds))
      IN [found |-> TRUE, group |-> SubSeq(msg, d, d + DigitRun(msg, d) - 1)]

\* re.search: the match at the leftmost position that has one.
RetryInSearch(msg) ==
    LET at == {i \in 1..Len(msg) : RetryInAt(msg, i).found} IN
    IF at = {} THEN NoMatch
    ELSE RetryInAt(msg, CHOOSE i \in at : \A k \in at : i <= k)

RetryDelaySearch(msg) ==
    LET at == {i \in 1..Len(msg) : RetryDelayAt(msg, i).found} IN
    IF at = {} THEN NoMatch
    ELSE RetryDelayAt(msg, CHOOSE i \in at : \A k \in at : i <= k)

\* float() of digits with an optional fraction: the whole part and the
\* digits of the fraction.  The value is kept exactly, as a double keeps
\* it for the purposes of ceil when the number has few digits.
ToFloat(group) ==
    LET n == DigitRun(group, 1) IN
    [whole |-> DigitsToNat(SubSeq(group, 1, n)), frac |-> From(group, n + 2)]

\* Ceil with int(x) in place of int(math.ceil(x)).
Truncate(x) == x.whole

\* int(math.ceil(x))
Ceil(x) ==
    IF \E i \in 1..Len(x.frac) : x.frac[i] # "0" THEN x.whole + 1 ELSE x.whole

NoDelay == [present |-> FALSE, seconds |-> 0]

\* retry_after: None, or the seconds of the first pattern that matches.
RetryAfter(msg) ==
    LET first == RetryInSearch(msg)
        m == IF first.found THEN first ELSE RetryDelaySearch(msg)
    IN
    IF m.found THEN [present |-> TRUE, seconds |-> Ceil(ToFloat(m.group))]
    ELSE NoDelay

-----------------------------------------------------------------------------
(* Bounds                                                                  *)

\* The most rows the plans table holds: past it the INSERT is taken to fail.
MaxPlans == 2

\* The most whitespace characters of one padding around a reply.
MaxPad == 1

-----------------------------------------------------------------------------
(* Inputs: request bodies, replies of the model, exception messages        *)

\* The bodies of POST /create-plan: whether the content type is JSON, and
\* the text.
Body(isJson, txt) == [isJson |-> isJson, txt |-> txt]

Bodies ==
    { Body(FALSE, <<"g", "o", "a", "l", "=", "a">>),
      Body(TRUE, <<"{", QT, "g", "o", "a", "l", QT, ":", QT, "a", QT, "}">>),
      Body(TRUE, <<"{", QT, "g", "o", "a", "l", QT, ":", "5", "}">>),
      Body(TRUE, <<"{", QT, "g", "o", "a", "l", QT, ":", QT, QT, "}">>),
      Body(TRUE, <<"{", QT, "g", "o", "a", "l", QT, ":", "n", "u", "l", "l", "}">>),
      Body(TRUE, <<"{", QT, "g", "o", "a", "l", QT, ":", "0", "}">>),
      Body(TRUE, <<"{", "}">>),
      Body(TRUE, <<"[", "]">>),
      Body(TRUE, <<"n", "u", "l", "l">>),
      Body(TRUE, <<QT, "g", "o", "a", "l", QT>>),
      Body(TRUE, <<"{", QT, "g", "o", "a", "l", QT>>),
      Body(TRUE, <<>>) }

\* A plan as the prompt asks for it.
PlanText ==
    <<"{", QT, "p", "r", "o", "j", "e", "c", "t", "_", "n", "a", "m", "e", QT,
    ":", QT, "X", QT, ",", QT, "t", "a", "s", "k", "s", QT, ":", "[", "]", "}">>

\* The texts of the model's replies to the service: plans bare, fenced,
\* tagged and inside prose; JSON that is no plan; and text that is no JSON.
ReplyTexts ==
    { PlanText,
      <<" ", " ", BT, BT, BT, "j", "s", "o", "n", NL>> \o PlanText \o <<NL, BT, BT, BT, " ", " ">>,
      <<"H", "e", "r", "e", ":", " ">> \o PlanText \o <<" ", "o", "k">>,
      <<"{", QT, "t", "a", "s", "k", "s", QT, ":", "[", "]", "}">>,
      <<"{", QT, "p", "r", "o", "j", "e", "c", "t", "_", "n", "a", "m", "e", QT,
      ":", "n", "u", "l", "l", "}">>,
      <<"{", QT, "p", "r", "o", "j", "e", "c", "t", "_", "n", "a", "m", "e", QT,
      ":", "[", QT, "X", QT, "]", "}">>,
      <<"{", QT, "e", "r", "r", "o", "r", QT, ":", QT, "x", QT, "}">>,
      <<"{", QT, "e", "r", "r", "o", "r", QT, ":", QT, "Q", "u", "o", "t", "a", QT,
      "}">>,
      <<"{", QT, "e", "r", "r", "o", "r", QT, ":", "4", "2", "9", "}">>,
      <<"j", "s", "o", "n", " ", "{", QT, "p", "r", "o", "j", "e", "c", "t", "_",
      "n", "a", "m", "e", QT, ":", QT, "X", QT, ",", QT, "e", "r", "r", "o",
      "r", QT, ":", "{", QT, "a", QT, ":", "[", "1", "]", "}", "}">>,
      <<"[", "1", "]">>,
      <<"[", QT, "e", "r", "r", "o", "r", QT, "]">>,
      <<QT, "n", "o", " ", "e", "r", "r", "o", "r", QT>>,
      <<QT, "a", QT>>,
      <<"1">>,
      <<"n", "u", "l", "l">>,
      <<"{", QT, "p", "r", "o", "j", "e", "c", "t", "_", "n", "a", "m", "e", QT,
      ":", QT, "X", QT, ",">>,
      <<"{", QT, "a", QT, ":", "1", "}", " ", "{", QT, "b", QT, ":", "2", "}">>,
      <<BT, BT, BT, NL, "S", "o", "r", "r", "y", ".", NL, BT, BT, BT>>,
      <<>> }

\* The replies of the generation service: a text, or a response whose text
\* attribute is None.
Replies == {NoText} \cup {Text(t) : t \in ReplyTexts}

\* What an exception of the generation call may say first ...
Causes ==
    { <<>>,
      <<"4", "2", "9", " ">>,
      <<"q", "u", "o", "t", "a", " ", "e", "x", "c", "e", "e", "d", "e", "d", ".",
      " ">>,
      <<"R", "e", "s", "o", "u", "r", "c", "e", " ", "Q", "u", "o", "t", "a", ".",
      " ">>,
      <<"I", "n", "t", "e", "r", "n", "a", "l", " ", "s", "e", "r", "v", "e", "r",
      " ", "f", "a", "u", "l", "t", ".", " ">> }

\* ... and the retry hint that may follow.
Hints ==
    { <<>>,
      <<"P", "l", "e", "a", "s", "e", " ", "r", "e", "t", "r", "y", " ", "i", "n",
      " ", "1", "2", ".", "4", "s">>,
      <<"P", "L", "E", "A", "S", "E", " ", "R", "E", "T", "R", "Y", " ", "I", "N",
      "3", "S">>,
      <<"P", "l", "e", "a", "s", "e", " ", "r", "e", "t", "r", "y", " ", "i", "n",
      " ", "5", " ", "s", "e", "c", "o", "n", "d", "s">>,
      <<"P", "l", "e", "a", "s", "e", " ", "r", "e", "t", "r", "y", " ", "i", "n",
      " ", "2", ".", "0", "s", ".">>,
      <<"P", "l", "e", "a", "s", "e", " ", "r", "e", "t", "r", "y", " ", "i", "n",
      " ", "5", " ", "s", ".", " ", "P", "l", "e", "a", "s", "e", " ", "r",
      "e", "t", "r", "y", " ", "i", "n", " ", "9", "s">>,
      <<"r", "e", "t", "r", "y", "_", "d", "e", "l", "a", "y", " ", "{", " ", "s",
      "e", "c", "o", "n", "d", "s", ":", " ", "7", " ", "}">>,
      <<"r", "e", "t", "r", "y", "_", "d", "e", "l", "a", "y", " ", "{", NL, " ",
      "s", "e", "c", "o", "n", "d", "s", ":", " ", "7", NL, "}">>,
      <<"r", "e", "t", "r", "y", "_", "d", "e", "l", "a", "y", " ", "{", " ", "}",
      " ", "s", "e", "c", "o", "n", "d", "s", ":", " ", "7">>,
      <<"r", "e", "t", "r", "y", "_", "d", "e", "l", "a", "y", " ", "{", " ", "s",
      "e", "c", "o", "n", "d", "s", ":", " ", "3", " ", "s", "e", "c", "o",
      "n", "d", "s", ":", " ", "8", " ", "}">>,
      <<"R", "e", "t", "r", "y", "_", "D", "e", "l", "a", "y", " ", "{", " ", "s",
      "e", "c", "o", "n", "d", "s", ":", " ", "7", " ", "}">>,
      <<"r", "e", "t", "r", "y", "_", "d", "e", "l", "a", "y", " ", "{", " ", "s",
      "e", "c", "o", "n", "d", "s", ":", " ", "7", " ", "}", " ", "P", "l",
      "e", "a", "s", "e", " ", "r", "e", "t", "r", "y", " ", "i", "n", " ",
      "2", "s">> }

Messages == {c \o h : c \in Causes, h \in Hints}

\* The inputs of the normalizer taken alone.  The JSON texts ...
Cores ==
    { PlanText,
      <<"{", "}">>,
      <<"{", " ", QT, "a", QT, " ", ":", " ", "{", " ", QT, "b", QT, " ", ":", " ",
      "[", " ", "1", " ", ",", " ", "2", " ", "]", " ", "}", " ", "}">>,
      <<"{", QT, "a", QT, ":", QT, "}", QT, ",", QT, "b", QT, ":", QT, "{", QT, "}">>,
      <<"{", QT, "a", QT, ":", QT, BT, BT, BT, QT, "}">>,
      <<"{", QT, "j", "s", "o", "n", QT, ":", "1", ",", QT, "j", "s", "o", "n", QT,
      ":", "2", "}">>,
      <<"[", "{", QT, "a", QT, ":", "1", "}", "]">>,
      <<"[", "1", "]">>,
      <<QT, "a", QT>>,
      <<"{", QT, "a", QT, ":", "1", "}", " ", "{", QT, "b", QT, ":", "2", "}">>,
      <<"{", QT, "a", QT, ":", "1">>,
      <<"}", "{">>,
      <<"S", "o", "r", "r", "y", ".">>,
      <<>> }

\* ... the whitespace around the whole, up to MaxPad characters ...
RECURSIVE PadsOf(_)
PadsOf(n) ==
    IF n = 0 THEN {<<>>}
    ELSE PadsOf(n - 1) \cup {Append(p, c) : p \in PadsOf(n - 1), c \in {" ", NL}}

Pads == PadsOf(MaxPad)

\* ... what stands between a fence and the text: nothing or a line break ...
Gaps == {<<>>, <<NL>>}

\* ... the opening fences and tags, the closing fences ...
TaggedFences == {Fence \o W_json, Fence \o <<"J", "S", "O", "N">>}

Opens == TaggedFences \cup {<<>>, Fence, W_json, <<"J", "s", "o", "n", ":">>}

Closes == {<<>>, Fence, Fence \o <<BT>>}

\* ... and the prose before and after.
Befores == {<<>>, <<"H", "e", "r", "e", " ", "{", "i", "t", "}", " ", "i", "s", ":", " ">>}

Afters == {<<>>, <<" ", "o", "k", "}">>}

\* A text in its wrapping: padding, opening, gap, prose, the text, prose,
\* gap, closing, padding.
Wrapped(outer, open, inner, before, core, after, close) ==
    outer \o open \o inner \o before \o core \o after \o inner \o close \o outer

\* An input of the normalizer: a text, the text wrapped, and whether the
\* wrapping is a fenced code block tagged json and nothing else.
NormInputs ==
    { [core |-> c,
       wrapped |-> Wrapped(o, opener, i, b, c, a, cl),
       fenced |-> (opener \in TaggedFences /\ cl = Fence /\ b = <<>> /\ a = <<>>)] :
      c \in Cores, o \in Pads, opener \in Opens, i \in Gaps, b \in Befores,
      a \in Afters, cl \in Closes }

-----------------------------------------------------------------------------
(* State                                                                   *)

VARIABLES
    disableAI,   \* whether DISABLE_AI is set in the environment
    store,       \* the rows of the plans table, in id order
    artifact,    \* last_raw_model_response.txt
    pc,          \* where the request handler is: idle, generate, normalize, respond
    op,          \* the route of the current or last request
    body,        \* the body of the create-plan request
    goal,        \* data.get('goal')
    genCalls,    \* the calls of model.generate_content in this request
    exc,         \* str(e) of the exception the generation call raised, if any
    raw,         \* raw_text
    norm,        \* json_response_text, json_candidate and whether json.loads succeeded
    outcome,     \* how generate_plan returned: dummy, raised, parsed, invalid
    wrote,       \* what became of the debug write: none, ok, open_failed, write_failed
    plan,        \* what generate_plan returned
    resp,        \* the response of the last request
    saved,       \* whether this request inserted a row
    returned,    \* history: per row, the plan the storing request answered with
    plan_id,     \* the id asked of GET /plans/<id>, 0 when the request is another
    nIn,         \* the normalizer's inputs: a text and the text wrapped
    nOut         \* the normalizer's results on them

vars == <<disableAI, store, artifact, pc, op, body, goal, genCalls, exc, raw,
          norm, outcome, wrote, plan, resp, saved, returned, plan_id, nIn, nOut>>

serviceVars == <<disableAI, store, artifact, pc, op, body, goal, genCalls, exc,
                 raw, norm, outcome, wrote, plan, resp, saved, returned, plan_id>>

normVars == <<nIn, nOut>>

-----------------------------------------------------------------------------
(* Responses                                                               *)

NoHeader == [present |-> FALSE, txt |-> <<>>]

\* A response: its status, whether its body is JSON, the body, and the
\* Retry-After header.
Response(status, isJson, content, header) ==
    [status |-> status, json |-> isJson, body |-> content, retryAfter |-> header]

\* jsonify(body), status
JsonResponse(status, content) == Response(status, TRUE, content, NoHeader)

NoResponse == Response(0, FALSE, NoneVal, NoHeader)

\* What the framework answers when the view function raises: a 500 page
\* that is no JSON.
InternalServerError == Response(500, FALSE, NoneVal, NoHeader)

\* What the framework answers when request.get_json() cannot parse the
\* body: it raises BadRequest, a 400 page that is no JSON.
BadRequest == Response(400, FALSE, NoneVal, NoHeader)

MissingJsonMessage == <<"M", "i", "s", "s", "i", "n", "g", " ", "J", "S", "O", "N", " ",
            "i", "n", " ", "r", "e", "q", "u", "e", "s", "t">>

GoalRequiredMessage ==
    <<"T", "h", "e", " ", "'", "g", "o", "a", "l", "'", " ", "f", "i",
            "e", "l", "d", " ", "i", "s", " ", "r", "e", "q", "u",
            "i", "r", "e", "d", ".">>

NotFoundMessage == <<"P", "l", "a", "n", " ", "n", "o", "t", " ", "f", "o", "u", "n", "d">>

W_goal == <<"g", "o", "a", "l">>

UntitledPlan == <<"U", "n", "t", "i", "t", "l", "e", "d", " ", "P", "l", "a", "n">>

\* The plan generate_plan returns when DISABLE_AI is set.
DummyPlan(g) ==
    DictVal(<<
      [k |-> W_project_name,
       v |-> StrVal(<<"L", "o", "c", "a", "l", " ", "T", "e", "s", "t", " ", "P", "l",
            "a", "n">>)],
      [k |-> <<"t", "a", "s", "k", "s">>,
       v |-> ListVal(<<[k |-> <<>>, v |-> DictVal(<<
          [k |-> <<"t", "a", "s", "k", "_", "i", "d">>, v |-> NumVal(<<"1">>)],
          [k |-> <<"t", "a", "s", "k", "_", "n", "a", "m", "e">>,
           v |-> StrVal(<<"T", "e", "s", "t", " ", "t", "a", "s", "k">>)],
          [k |-> <<"d", "e", "s", "c", "r", "i", "p", "t", "i", "o", "n">>,
           v |-> g],
          [k |-> <<"t", "i", "m", "e", "l", "i", "n", "e", "_", "d", "a", "y", "s">>,
           v |-> NumVal(<<"1">>)],
          [k |-> <<"d", "e", "p", "e", "n", "d", "e", "n", "c", "i", "e", "s">>,
           v |-> ListVal(<<>>)]>>)]>>)]>>)

-----------------------------------------------------------------------------
(* create_plan_endpoint after generate_plan has returned                   *)

\* The body and header of a rate-limited answer that carries a delay.
RetryBody(msg, seconds) ==
    DictVal(<<[k |-> W_error, v |-> StrVal(msg)],
              [k |-> W_retry_after, v |-> NumVal(NatToDigits(seconds))]>>)

RetryHeader(seconds) == [present |-> TRUE, txt |-> NatToDigits(seconds)]

\* ErrorAnswer without the Retry-After header.
ErrorAnswerNoHeader(msg, delay) ==
    IF IsRateLimited(msg)
    THEN IF delay.present
         THEN JsonResponse(429, RetryBody(msg, delay.seconds))
         ELSE JsonResponse(429, ErrorDict(msg))
    ELSE JsonResponse(500, ErrorDict(msg))

\* The answer to a plan that holds the key "error": 429 for a quota
\* message, with the delay when one is found, and 500 otherwise.
ErrorAnswer(msg, delay) ==
    IF IsRateLimited(msg)
    THEN IF delay.present
         THEN Response(429, TRUE, RetryBody(msg, delay.seconds),
                       RetryHeader(delay.seconds))
         ELSE JsonResponse(429, ErrorDict(msg))
    ELSE JsonResponse(500, ErrorDict(msg))

\* err_msg = str(plan.get("error", ""))
ErrMsg(p) == PyStr(PyGet(p, W_error, StrVal(<<>>)))

ErrorResponse(p) == ErrorAnswer(ErrMsg(p), RetryAfter(ErrMsg(p)))

\* The values sqlite3 binds to a TEXT NOT NULL column: a str or a number
\* (a bool is bound as 1 or 0).  None breaks NOT NULL and a list or a dict
\* cannot be bound.
Bindable(v) == v.kind \in {"str", "num", "true", "false"}

SqlText(v) ==
    CASE v.kind = "true" -> <<"1">>
      [] v.kind = "false" -> <<"0">>
      [] OTHER -> v.txt

\* Whether the statements of the save block raise nothing for this plan:
\* plan.get exists and project_name can be bound.
CanSave(p) == HasGet(p) /\ Bindable(PyGet(p, W_project_name, StrVal(UntitledPlan)))

\* CURRENT_TIMESTAMP for a new row, counted from the first row's: the second
\* of the row before it, or a later one.
Timestamp(rows, later) ==
    IF rows = <<>> THEN 0
    ELSE rows[Len(rows)].created_at + (IF later THEN 1 ELSE 0)

\* The row an INSERT of these values adds: AUTOINCREMENT gives the next id
\* (no row is ever deleted).
NewRow(values, rows, later) ==
    [id |-> Len(rows) + 1,
     project_name |-> values.project_name,
     plan_data |-> values.plan_data,
     created_at |-> Timestamp(rows, later)]

\* What the handler answers for the plan generate_plan returned: "error" in
\* plan raises for a plan that is no container, plan.get raises for a list
\* or a str, and neither exception is caught.
AnswerFor(p, found) ==
    IF found = "raise" THEN InternalServerError
    ELSE IF found = "true"
      THEN IF HasGet(p) THEN ErrorResponse(p) ELSE InternalServerError
    ELSE JsonResponse(200, p)

Answer(p) == AnswerFor(p, PyIn(W_error, p))

\* ReachesSave with the save block ahead of the error check.
ReachesSaveAlways(p) == TRUE

\* Whether the handler reaches the save block.
ReachesSave(p) == PyIn(W_error, p) = "false"

-----------------------------------------------------------------------------
(* The service: one request at a time (the design is single-threaded)      *)

NoNorm == [cleaned |-> <<>>, candidate |-> <<>>, ok |-> FALSE, plan |-> NoneVal]

NoFile == [exists |-> FALSE, txt |-> <<>>]

File(t) == [exists |-> TRUE, txt |-> t]

Pending == [done |-> FALSE, result |-> NoNorm]

Done(r) == [done |-> TRUE, result |-> r]

NoInput == [core |-> <<>>, wrapped |-> <<>>, fenced |-> FALSE]

\* The state after start-up: init_db has created an empty plans table and
\* nothing has been requested.
Started ==
    /\ store = <<>>
    /\ artifact = NoFile
    /\ pc = "idle"
    /\ op = "none"
    /\ body = Body(FALSE, <<>>)
    /\ goal = NoneVal
    /\ genCalls = 0
    /\ exc = NoText
    /\ raw = NoText
    /\ norm = NoNorm
    /\ outcome = "none"
    /\ wrote = "none"
    /\ plan = NoneVal
    /\ resp = NoResponse
    /\ saved = FALSE
    /\ returned = <<>>
    /\ plan_id = 0

Init ==
    /\ disableAI \in BOOLEAN
    /\ Started
    /\ nIn = NoInput
    /\ nOut = [bare |-> Pending, wrapped |-> Pending]

\* The handler returns (or raises) before generate_plan is called.
Reject(answer) == [proceed |-> FALSE, goal |-> NoneVal, answer |-> answer]

\* create_plan_endpoint up to the call of generate_plan: the content type,
\* request.get_json(), data.get (an AttributeError unless the body is an
\* object) and the goal.
ReceiveData(b, data) ==
    IF ~b.isJson THEN Reject(JsonResponse(400, ErrorDict(MissingJsonMessage)))
    ELSE IF ~data.ok THEN Reject(BadRequest)
    ELSE IF ~HasGet(data.val) THEN Reject(InternalServerError)
    ELSE IF ~Truthy(PyGet(data.val, W_goal, NoneVal))
      THEN Reject(JsonResponse(400, ErrorDict(GoalRequiredMessage)))
    ELSE [proceed |-> TRUE, goal |-> PyGet(data.val, W_goal, NoneVal),
          answer |-> NoResponse]

Receive(b) == ReceiveData(b, Loads(b.txt))

\* After the save block, for the plan generate_plan returned: the answer,
\* whether the INSERT was reached with values it can bind, and the values.
FinishFor(p, reached) ==
    [answer |-> Answer(p),
     canSave |-> reached,
     project_name |-> IF reached
                      THEN SqlText(PyGet(p, W_project_name, StrVal(UntitledPlan)))
                      ELSE <<>>,
     plan_data |-> Dumps(p)]

Finish(p) == FinishFor(p, ReachesSave(p) /\ CanSave(p))

\* The functions above on the inputs of the model, each computed once: the
\* bodies, the replies, the goals that pass, the plans generate_plan can
\* return on them, and the plan_data of those plans.
Received == [b \in Bodies |-> Receive(b)]

Normalized == [r \in Replies |-> Normalize(r)]

Goals == {Received[b].goal : b \in Bodies}

Plans ==
    {ErrorDict(m) : m \in Messages}
    \cup {Normalized[r].plan : r \in Replies}
    \cup {DummyPlan(g) : g \in Goals}

Finished == [p \in Plans |-> Finish(p)]

PlanData == {Dumps(p) : p \in Plans}

Loaded == [t \in PlanData |-> Loads(t)]

\* POST /create-plan up to the call of generate_plan.
CreatePlanReceive(b) ==
    /\ pc = "idle"
    /\ op' = "create"
    /\ body' = b
    /\ genCalls' = 0
    /\ exc' = NoText
    /\ raw' = NoText
    /\ norm' = NoNorm
    /\ outcome' = "none"
    /\ wrote' = "none"
    /\ plan' = NoneVal
    /\ saved' = FALSE
    /\ plan_id' = 0
    /\ \E received \in {Received[b]} :
         /\ goal' = received.goal
         /\ resp' = received.answer
         /\ pc' = IF received.proceed THEN "generate" ELSE "idle"
    /\ UNCHANGED <<disableAI, store, artifact, returned, normVars>>

\* generate_plan with DISABLE_AI set: the dummy plan, and no call.
GenerateDummy ==
    /\ pc = "generate"
    /\ disableAI
    /\ plan' = DummyPlan(goal)
    /\ outcome' = "dummy"
    /\ pc' = "respond"
    /\ UNCHANGED <<disableAI, store, artifact, op, body, goal, genCalls, exc, raw,
                   norm, wrote, resp, saved, returned, plan_id, normVars>>

\* model.generate_content returns a response with the text r.
GenerateReply(r) ==
    /\ pc = "generate"
    /\ ~disableAI
    /\ genCalls' = genCalls + 1
    /\ raw' = r
    /\ pc' = "normalize"
    /\ UNCHANGED <<disableAI, store, artifact, op, body, goal, exc, norm, outcome,
                   wrote, plan, resp, saved, returned, plan_id, normVars>>

\* model.generate_content raises an exception whose str() is m: the outer
\* except returns {"error": m}.
GenerateRaises(m) ==
    /\ pc = "generate"
    /\ ~disableAI
    /\ genCalls' = genCalls + 1
    /\ exc' = Text(m)
    /\ plan' = ErrorDict(m)
    /\ outcome' = "raised"
    /\ pc' = "respond"
    /\ UNCHANGED <<disableAI, store, artifact, op, body, goal, raw, norm,
                   wrote, resp, saved, returned, plan_id, normVars>>

\* WriteArtifact with f.write(json_response_text).
WriteArtifactCleaned(how, before, r) ==
    CASE how = "ok" -> File(CleanReply(r))
      [] how = "write_failed" -> File(<<>>)
      [] how = "open_failed" -> before

\* The debug file after open(..., 'w') and f.write(raw_text or ''): open may
\* fail, which leaves the file as it was, and write may fail after open has
\* truncated it.
WriteArtifact(how, before, r) ==
    CASE how = "ok" -> File(OrEmpty(r))
      [] how = "write_failed" -> File(<<>>)
      [] how = "open_failed" -> before

\* The rest of generate_plan's try block: the reply is cleaned and parsed;
\* when json.loads raises, the raw text is written to the debug file, any
\* exception of that is passed over, and the invalid-JSON error is returned.
NormalizeReply(how) ==
    /\ pc = "normalize"
    /\ norm' = Normalized[raw]
    /\ plan' = norm'.plan
    /\ IF norm'.ok
       THEN /\ outcome' = "parsed"
            /\ wrote' = "none"
            /\ artifact' = artifact
       ELSE /\ outcome' = "invalid"
            /\ wrote' = how
            /\ artifact' = WriteArtifact(how, artifact, raw)
    /\ pc' = "respond"
    /\ UNCHANGED <<disableAI, store, op, body, goal, genCalls, exc, raw, resp,
                   saved, returned, plan_id, normVars>>

\* The rest of create_plan_endpoint: the error answers, or the save block
\* and the plan.  Any exception of the save block is printed and passed
\* over; dbOk is whether sqlite3 itself works this time, and later whether
\* the clock has reached a new second since the last row.
Respond(dbOk, later) ==
    /\ pc = "respond"
    /\ \E finished \in {Finished[plan]} :
         /\ resp' = finished.answer
         /\ saved' = (finished.canSave /\ dbOk /\ Len(store) < MaxPlans)
         /\ store' = IF saved' THEN Append(store, NewRow(finished, store, later))
                     ELSE store
    /\ returned' = IF saved' THEN Append(returned, plan) ELSE returned
    /\ pc' = "idle"
    /\ UNCHANGED <<disableAI, artifact, op, body, goal, genCalls, exc, raw, norm,
                   outcome, wrote, plan, plan_id, normVars>>

\* The injective maps of 1..n onto itself.
Orders(n) == {f \in [1..n -> 1..n] : \A i, j \in 1..n : f[i] = f[j] => i = j}

\* One line of the list page.
ListEntry(row) ==
    [k |-> <<>>,
     v |-> ListVal(<<[k |-> <<>>, v |-> NumVal(NatToDigits(row.id))],
                     [k |-> <<>>, v |-> StrVal(row.project_name)],
                     [k |-> <<>>, v |-> NumVal(NatToDigits(row.created_at))]>>)]

\* A request that is no create-plan request has none of its locals.
NoCreateLocals ==
    /\ body' = Body(FALSE, <<>>)
    /\ goal' = NoneVal
    /\ genCalls' = 0
    /\ exc' = NoText
    /\ raw' = NoText
    /\ norm' = NoNorm
    /\ outcome' = "none"
    /\ wrote' = "none"
    /\ plan' = NoneVal
    /\ saved' = FALSE

\* GET /plans: the rows ORDER BY created_at DESC (rows of one second in any
\* order), rendered as a page.
ViewPlans ==
    /\ pc = "idle"
    /\ op' = "list"
    /\ \E f \in Orders(Len(store)) :
         /\ \A i, j \in 1..Len(store) :
              i < j => store[f[i]].created_at >= store[f[j]].created_at
         /\ resp' = Response(200, FALSE,
                             ListVal([i \in 1..Len(store) |-> ListEntry(store[f[i]])]),
                             NoHeader)
    /\ NoCreateLocals
    /\ plan_id' = 0
    /\ UNCHANGED <<disableAI, store, artifact, pc, returned, normVars>>

\* GET /plans/<id>: json.loads of the row's plan_data, or 404.
GetPlan(id) ==
    /\ pc = "idle"
    /\ op' = "get"
    /\ resp' = IF \E i \in 1..Len(store) : store[i].id = id
               THEN JsonResponse(200,
                      Loaded[store[CHOOSE i \in 1..Len(store) : store[i].id = id].plan_data].val)
               ELSE JsonResponse(404, ErrorDict(NotFoundMessage))
    /\ NoCreateLocals
    /\ plan_id' = id
    /\ UNCHANGED <<disableAI, store, artifact, pc, returned, normVars>>

Next ==
    \/ \E b \in Bodies : CreatePlanReceive(b)
    \/ GenerateDummy
    \/ \E r \in Replies : GenerateReply(r)
    \/ \E m \in Messages : GenerateRaises(m)
    \/ \E how \in {"ok", "open_failed", "write_failed"} : NormalizeReply(how)
    \/ \E dbOk, later \in BOOLEAN : Respond(dbOk, later)
    \/ ViewPlans
    \/ \E id \in 1..(MaxPlans + 1) : GetPlan(id)

Spec == Init /\ [][Next]_vars

-----------------------------------------------------------------------------
(* The normalizer of generate_plan taken alone, on a text and on the text  *)
(* in a wrapping                                                           *)

NormInit ==
    /\ disableAI = FALSE
    /\ Started
    /\ nIn \in NormInputs
    /\ nOut = [bare |-> Pending, wrapped |-> Pending]

\* The reply is the text itself.
NormalizeBare ==
    /\ ~nOut.bare.done
    /\ nOut' = [nOut EXCEPT !.bare = Done(Normalize(Text(nIn.core)))]
    /\ UNCHANGED <<serviceVars, nIn>>

\* The reply is the text in its wrapping.
NormalizeWrapped ==
    /\ ~nOut.wrapped.done
    /\ nOut' = [nOut EXCEPT !.wrapped = Done(Normalize(Text(nIn.wrapped)))]
    /\ UNCHANGED <<serviceVars, nIn>>

NormNext == NormalizeBare \/ NormalizeWrapped

NormSpec == NormInit /\ [][NormNext]_vars

-----------------------------------------------------------------------------
(* What the properties speak of                                            *)

\* A create-plan request has been answered.
Created == op = "create" /\ pc = "idle"

\* A JSON object has the member key; the member's value.
HasField(v, key) == v.kind = "dict" /\ \E i \in 1..Len(v.items) : v.items[i].k = key

Field(v, key) == v.items[CHOOSE i \in 1..Len(v.items) : v.items[i].k = key].v

\* t is the text of a JSON object.
IsObjectText(t) == Loads(t).ok /\ Loads(t).val.kind = "dict"

\* m holds "quota" in any case, or "429".
MentionsQuota(m) ==
    LET low == Lower(m) IN
    \E i \in 1..Len(m) : OccursAt(low, W_quota, i) \/ OccursAt(m, W_429, i)

AllDigits(t) == t # <<>> /\ \A x \in 1..Len(t) : t[x] \in Digits

\* t is <digits> or <digits>.<digits>
IsNumber(t) ==
    \/ AllDigits(t)
    \/ \E d \in 2..(Len(t) - 1) :
         /\ t[d] = "."
         /\ AllDigits(SubSeq(t, 1, d - 1))
         /\ AllDigits(SubSeq(t, d + 1, Len(t)))

\* The least integer that is no less than the number t.
CeilingOf(t) ==
    IF AllDigits(t) THEN DigitsToNat(t)
    ELSE LET d == CHOOSE x \in 1..Len(t) : t[x] = "." IN
         DigitsToNat(SubSeq(t, 1, d - 1))
           + (IF \E x \in (d + 1)..Len(t) : t[x] # "0" THEN 1 ELSE 0)

\* The numbers that "Please retry in <number>s", in any case, captures when
\* it is matched at position i of m.
RetryInNumbers(m, i) ==
    LET a == i + Len(W_please_retry_in) IN
    IF ~OccursAt(Lower(m), W_please_retry_in, i) THEN {}
    ELSE {SubSeq(m, jk[1], jk[2]) :
            jk \in {x \in (a..Len(m)) \X (a..Len(m)) :
                      /\ x[1] <= x[2]
                      /\ x[2] < Len(m)
                      /\ \A w \in a..(x[1] - 1) : m[w] \in Whitespace
                      /\ IsNumber(SubSeq(m, x[1], x[2]))
                      /\ LowerChar(m[x[2] + 1]) = "s"}}

\* The places <<p, j, k>> where "retry_delay { ... seconds: <integer>" is
\* matched at position i of m: seconds: stands at p, inside the block, and
\* the integer, taken whole, is m[j..k].
RetryDelayPlaces(m, i) ==
    LET a == i + Len(W_retry_delay)
        n == Len(m)
    IN
    IF ~OccursAt(m, W_retry_delay, i) THEN {}
    ELSE {x \in (a..n) \X (a..n) \X (a..n) :
            /\ x[1] < x[2] /\ x[2] <= x[3]
            /\ OccursAt(m, W_seconds, x[1])
            /\ \E b \in a..(x[1] - 1) :
                 /\ m[b] = LB
                 /\ \A w \in a..(b - 1) : m[w] \in Whitespace
                 /\ \A w \in (b + 1)..(x[1] - 1) : m[w] # RB
            /\ \A w \in (x[1] + Len(W_seconds))..(x[2] - 1) : m[w] \in Whitespace
            /\ AllDigits(SubSeq(m, x[2], x[3]))
            /\ (x[3] < n => m[x[3] + 1] \notin Digits)}

\* The retry-after value of the message m as the two patterns give it: the
\* first match of the first pattern, else the first match of the second
\* (whose block is read as far as it goes, so its last seconds: counts).
ExpectedDelay(m) ==
    LET at1 == {i \in 1..Len(m) : RetryInNumbers(m, i) # {}}
        at2 == {i \in 1..Len(m) : RetryDelayPlaces(m, i) # {}}
    IN
    IF at1 # {}
    THEN LET i == CHOOSE x \in at1 : \A y \in at1 : x <= y IN
         [present |-> TRUE,
          seconds |-> CeilingOf(CHOOSE t \in RetryInNumbers(m, i) : TRUE)]
    ELSE IF at2 # {}
    THEN LET i == CHOOSE x \in at2 : \A y \in at2 : x <= y
             places == RetryDelayPlaces(m, i)
             last == CHOOSE x \in places : \A y \in places : y[1] <= x[1]
         IN [present |-> TRUE,
             seconds |-> DigitsToNat(SubSeq(m, last[2], last[3]))]
    ELSE [present |-> FALSE, seconds |-> 0]

\* The same on the error messages of the model, computed once.
ErrorTexts == {ErrMsg(p) : p \in {q \in Plans : HasField(q, W_error)}}

ExpectedDelays == [m \in ErrorTexts |-> ExpectedDelay(m)]

\* The delay a response carries in its body and in its header.
BodyDelay(r) ==
    IF HasField(r.body, W_retry_after)
    THEN [present |-> TRUE, seconds |-> DigitsToNat(Field(r.body, W_retry_after).txt)]
    ELSE [present |-> FALSE, seconds |-> 0]

HeaderDelay(r) ==
    IF r.retryAfter.present
    THEN [present |-> TRUE, seconds |-> DigitsToNat(r.retryAfter.txt)]
    ELSE [present |-> FALSE, seconds |-> 0]

\* The body of a create-plan request holds no goal, or an empty one.
LacksGoal(b) ==
    \/ ~b.isJson
    \/ ~Loads(b.txt).ok
    \/ ~HasField(Loads(b.txt).val, W_goal)
    \/ Field(Loads(b.txt).val, W_goal) \in {StrVal(<<>>), NoneVal}

-----------------------------------------------------------------------------
(* The properties                                                          *)

\* C1: for the text J of a JSON object, the normalizer parses J inside a
\* fenced code block tagged json, whatever whitespace surrounds it, into
\* the same structure as J alone, and that structure is the object J.
C1_FencedParsesAsBare ==
    (nIn.fenced /\ IsObjectText(nIn.core)) =>
        /\ nOut.bare.done =>
             /\ nOut.bare.result.ok
             /\ nOut.bare.result.plan = Loads(nIn.core).val
        /\ nOut.wrapped.done =>
             /\ nOut.wrapped.result.ok
             /\ nOut.wrapped.result.plan = Loads(nIn.core).val
        /\ (nOut.bare.done /\ nOut.wrapped.done) =>
             nOut.wrapped.result.plan = nOut.bare.result.plan

\* A nested object in a tagged fence inside whitespace has been normalized
\* both ways.
C1_Witness ==
    /\ nIn.fenced
    /\ nIn.core = <<"{", " ", QT, "a", QT, " ", ":", " ", "{", " ", QT, "b", QT, " ", ":", " ",
                  "[", " ", "1", " ", ",", " ", "2", " ", "]", " ", "}", " ",
                  "}">>
    /\ nIn.wrapped[1] \in Whitespace
    /\ nOut.bare.done
    /\ nOut.wrapped.done
    /\ nOut.wrapped.result.plan = nOut.bare.result.plan
    /\ nOut.wrapped.result.plan.kind = "dict"

\* C2: whenever the reply of the model parses, whatever its value or keys,
\* the create-plan request is answered 200 with the parsed structure as
\* its JSON body.
C2_ParsedReplyIsAnswered200 ==
    (Created /\ outcome = "parsed" /\ Loads(norm.candidate).ok) =>
        /\ resp.status = 200
        /\ resp.json
        /\ resp.body = Loads(norm.candidate).val

\* C3: when the generation call raises an exception with message m,
\* generate_plan returns an error result carrying m, and the request is
\* answered with a JSON body whose "error" is m, with status 429 if m holds
\* "quota" in any case or "429", and with status 500 otherwise.
C3_RaisedIsAnswered ==
    (outcome = "raised" /\ pc \in {"respond", "idle"}) =>
        /\ HasField(plan, W_error)
        /\ Field(plan, W_error) = StrVal(exc.txt)
        /\ pc = "idle" =>
             /\ resp.json
             /\ HasField(resp.body, W_error)
             /\ Field(resp.body, W_error) = StrVal(exc.txt)
             /\ resp.status = IF MentionsQuota(exc.txt) THEN 429 ELSE 500

\* An exception that says Quota with a capital, and neither quota nor 429,
\* has been answered 429.
C3_Witness ==
    /\ Created
    /\ outcome = "raised"
    /\ resp.status = 429
    /\ ~Contains(exc.txt, W_quota)
    /\ ~Contains(exc.txt, W_429)

\* C4: when the JSON candidate of a reply is no valid JSON (the reply may be
\* empty, or have no text at all), generate_plan returns the invalid-JSON
\* error result, and the request is answered with that error as a JSON
\* body.
C4_InvalidReplyIsAnswered ==
    (outcome \in {"parsed", "invalid"} /\ pc \in {"respond", "idle"}
       /\ ~Loads(norm.candidate).ok) =>
        /\ plan.kind = "dict"
        /\ Len(plan.items) = 1
        /\ HasField(plan, W_error)
        /\ Field(plan, W_error) = StrVal(InvalidJsonMessage)
        /\ pc = "idle" =>
             /\ resp.json
             /\ resp.status = 500
             /\ HasField(resp.body, W_error)
             /\ Field(resp.body, W_error) = StrVal(InvalidJsonMessage)

\* A reply without a text has been answered.
C4_Witness ==
    /\ Created
    /\ genCalls = 1
    /\ raw.none
    /\ outcome = "invalid"
    /\ resp.json
    /\ resp.status = 500

\* C5: the retry-after value of a rate-limited answer is the ceiling of the
\* number of the first "Please retry in <number>s" (in any case) of the
\* message; without one, the integer of the first "retry_delay { ...
\* seconds: <integer>"; without either, there is none.
C5_RetryAfterIsExtracted ==
    (Created /\ resp.status = 429) =>
        /\ HasField(resp.body, W_error)
        /\ Field(resp.body, W_error).kind = "str"
        /\ HeaderDelay(resp) = ExpectedDelays[Field(resp.body, W_error).txt]

\* "Please retry in 12.4s" has given 13.
C5_Witness ==
    /\ Created
    /\ resp.status = 429
    /\ Contains(exc.txt, <<"P", "l", "e", "a", "s", "e", " ", "r", "e", "t", "r", "y", " ", "i", "n",
                         " ", "1", "2", ".", "4", "s">>)
    /\ resp.retryAfter = [present |-> TRUE, txt |-> <<"1", "3">>]

\* C6 as it stands: every failure answer of create-plan has an "error"
\* field, every 429 answer carries retry_after in its body and a
\* Retry-After header with the same delay, and no 400 or 500 answer carries
\* either.
C6_Every429CarriesDelay ==
    (Created /\ resp.status # 200) =>
        /\ HasField(resp.body, W_error)
        /\ resp.status = 429 =>
             /\ BodyDelay(resp).present
             /\ HeaderDelay(resp) = BodyDelay(resp)
        /\ resp.status \in {400, 500} =>
             /\ ~BodyDelay(resp).present
             /\ ~HeaderDelay(resp).present

\* C6 amended: every failure answer of create-plan with a JSON body has an
\* "error" field, and the only ones without a JSON body are the 400 and 500
\* pages of the framework; a 429 answer carries retry_after in its body and
\* a Retry-After header, both with the extracted delay, exactly when a
\* delay can be extracted from the message, and neither otherwise; no 400
\* or 500 answer carries either.
C6_DelayWhenExtracted ==
    (Created /\ resp.status # 200) =>
        /\ resp.json => HasField(resp.body, W_error)
        /\ ~resp.json => resp.status \in {400, 500}
        /\ resp.status = 429 =>
             /\ resp.json
             /\ HeaderDelay(resp) = BodyDelay(resp)
             /\ BodyDelay(resp).present =
                  ExpectedDelays[Field(resp.body, W_error).txt].present
        /\ resp.status \in {400, 500} =>
             /\ ~BodyDelay(resp).present
             /\ ~HeaderDelay(resp).present

\* A 429 answer without a delay, and so without the field and the header.
C6_Witness ==
    /\ Created
    /\ resp.status = 429
    /\ HasField(resp.body, W_error)
    /\ ~HasField(resp.body, W_retry_after)
    /\ ~resp.retryAfter.present

\* C7: a create-plan request calls the generation service at most once; a
\* request whose body is no JSON, or holds no goal or an empty one, is
\* answered 400 without a call; and a reply that is no valid JSON is
\* answered as an error after the one call.
C7_AtMostOneCall ==
    /\ genCalls <= 1
    /\ (Created /\ LacksGoal(body)) => (resp.status = 400 /\ genCalls = 0)
    /\ (Created /\ outcome = "invalid") =>
         (genCalls = 1 /\ resp.status # 200 /\ HasField(resp.body, W_error))

\* After generate_plan: the write was tried when, and only when, the JSON
\* candidate does not parse; a write that went through left the raw reply
\* in the file (nothing for a reply without text); and whatever became of
\* the write, the result is the invalid-JSON error.
C8_WrittenOnParseFailure ==
    (op = "create" /\ pc \in {"respond", "idle"}) =>
        /\ (wrote # "none") = (outcome \in {"parsed", "invalid"}
                                 /\ ~Loads(norm.candidate).ok)
        /\ wrote = "ok" =>
             artifact = [exists |-> TRUE, txt |-> IF raw.none THEN <<>> ELSE raw.txt]
        /\ wrote # "none" =>
             /\ HasField(plan, W_error)
             /\ Field(plan, W_error) = StrVal(InvalidJsonMessage)

\* The debug file changes in no other step.
C8_WrittenOnlyThen ==
    (artifact' # artifact) =>
        /\ pc = "normalize"
        /\ ~Loads(norm'.candidate).ok
        /\ wrote' \in {"ok", "write_failed"}

\* C8: the debug file is written exactly when the JSON candidate does not
\* parse, and then receives the raw reply (the empty string for a reply
\* without text); a failure of the write is passed over and the request
\* gets the same invalid-JSON error.
C8_DebugArtifact == []C8_WrittenOnParseFailure /\ [][C8_WrittenOnlyThen]_vars

\* A fenced apology was written as it came, fences included, over an older
\* file.
C8_Witness ==
    /\ Created
    /\ wrote = "ok"
    /\ raw.txt # norm.cleaned
    /\ raw.txt # norm.candidate
    /\ artifact.txt = raw.txt

\* C9: the JSON candidate is the cleaned text from its first { to its last
\* } when a { of the text has a } after it, and the whole cleaned text
\* otherwise.
C9_CandidateIsBraceSpan ==
    \A r \in {nOut.bare, nOut.wrapped} :
        r.done =>
            LET t == r.result.cleaned
                opens == {i \in 1..Len(t) :
                            t[i] = LB /\ \E j \in (i + 1)..Len(t) : t[j] = RB}
            IN IF opens = {} THEN r.result.candidate = t
               ELSE \E i \in opens, j \in 1..Len(t) :
                      /\ \A k \in 1..(i - 1) : t[k] # LB
                      /\ t[j] = RB
                      /\ \A k \in (j + 1)..Len(t) : t[k] # RB
                      /\ r.result.candidate = SubSeq(t, i, j)

\* Two blocks in prose have been taken as one span.
C9_Witness ==
    /\ nIn.core = <<"{", QT, "a", QT, ":", "1", "}", " ", "{", QT, "b", QT, ":", "2", "}">>
    /\ nOut.wrapped.done
    /\ nOut.wrapped.result.cleaned # nOut.wrapped.result.candidate
    /\ Contains(nOut.wrapped.result.candidate, <<"}", " ", "{">>)
    /\ ~nOut.wrapped.result.ok

\* The ids of the records are distinct, and get-plan on a stored id
\* answers with the plan as the request that stored it returned it.
C10_StoredPlans ==
    /\ \A i, j \in 1..Len(store) : store[i].id = store[j].id => i = j
    /\ Len(returned) = Len(store)
    /\ (op = "get" /\ pc = "idle") =>
         \A i \in 1..Len(store) :
             store[i].id = plan_id =>
                 /\ resp.status = 200
                 /\ resp.json
                 /\ resp.body = returned[i]

\* A step adds at most one record, adds one only as a create-plan request
\* is answered 200 with the plan, and leaves the records there are as they
\* are.
C10_StoreStep ==
    /\ Len(store') \in {Len(store), Len(store) + 1}
    /\ \A i \in 1..Len(store) : store'[i] = store[i]
    /\ Len(store') # Len(store) =>
         /\ op = "create"
         /\ pc = "respond"
         /\ pc' = "idle"
         /\ resp'.status = 200
         /\ returned'[Len(store')] = resp'.body

\* C10: over any requests, a create-plan request adds at most one record
\* and only when it is answered 200; no other request and no other answer
\* changes the store; a record is never changed or removed; the ids are
\* distinct; and get-plan on a stored id returns the plan as the request
\* that stored it returned it.
C10_StoreIsAppendOnly == []C10_StoredPlans /\ [][C10_StoreStep]_vars

\* The second of two stored plans has been fetched.
C10_Witness ==
    /\ op = "get"
    /\ pc = "idle"
    /\ Len(store) = 2
    /\ plan_id = store[2].id
    /\ store[1].id # store[2].id
    /\ resp.status = 200
    /\ resp.body = returned[2]

=============================================================================
